---------------------------- MODULE Spec2Model ----------------------------
(***************************************************************************)
(* A model of the feature pipeline of quantms.io:                          *)
(*   quantmsio/core/feature.py              (class Feature)                *)
(*   quantmsio/commands/convert/quantms.py  (quantmsio_workflow)           *)
(*                                                                         *)
(* Every cell of a table (a pandas DataFrame row, a PSM row) is a string,  *)
(* as it is read from the mzTab / MSstats text sources.  NULL stands for   *)
(* Python's None / pandas' NaN.  Numeric conversions are table driven:     *)
(* Float and ToNumeric say what float() and pandas.to_numeric do to a      *)
(* text.                                                                   *)
(***************************************************************************)
EXTENDS Integers, Sequences, FiniteSets, TLC

VARIABLES
    psm_pc,       \* extract_psm_msg: "loop" while chunks are streamed, "returned" after
    psm_chunks,   \* the chunks iter_psm_table has yielded so far, in order
    map_dict,     \* the best-match index under construction
    pep_dict,     \* the peptide-level best-scan index (psm.extract_from_pep)
    rep_pc,       \* generate_feature_report: position in the body of its batch loop
    msstats_in,   \* the quantification batch as transform_msstats_in yielded it
    msstats,      \* the same batch, annotated in place
    w_pc,         \* write_features_to_file: position in the function
    outcome,      \* of the call: "running", "returned" or "raised"
    partitions,   \* the partitions argument
    extract_calls,      \* calls of extract_psm_msg made so far
    duckdb,       \* the DuckDB database of MsstatsIN: "none", "open", "destroyed"
    pulled,       \* quantification batches pulled so far, as a list of their sizes
    slices,       \* the groups slice() makes of the current batch
    next_slice,   \* position in slices of the next group to yield
    consumed,     \* the (key, rows) pairs the writer loop has received so far
    pqwriters,    \* the sinks: key tuple -> rows written and number of closes
    partition_counts,   \* label -> number of rows counted
    features_processed,
    pqwriter,     \* write_feature_to_file: its sink, 0 for None, else a position in sinks
    sinks,        \* every ParquetWriter write_feature_to_file has opened, in order
    wf_pc,        \* quantmsio_workflow: position in the function
    wf_inputs,    \* which of the required inputs exist, and the output directory
    wf_init_step, \* the call of the project initialization that runs next
    wf_attempted, \* the stages the run has entered
    wf_failed,    \* the stages that raised
    wf_outcome    \* of the call: "running", "returned" or "raised"

psmVars == <<psm_pc, psm_chunks, map_dict>>
repVars == <<pep_dict, rep_pc, msstats_in, msstats>>
writeVars ==
    <<w_pc, outcome, partitions, extract_calls, duckdb, pulled, slices, next_slice,
      consumed, pqwriters, partition_counts, features_processed, pqwriter, sinks>>
wfVars == <<wf_pc, wf_inputs, wf_init_step, wf_attempted, wf_failed, wf_outcome>>
vars ==
    <<psm_pc, psm_chunks, map_dict, pep_dict, rep_pc, msstats_in, msstats, writeVars,
      wfVars>>

NULL == "NULL"

(***************************************************************************)
(* Bounds of the model.                                                    *)
(***************************************************************************)
MaxPsmRows == 3      \* PSM rows streamed by one extraction, over all chunks
MaxBatchRows == 2    \* rows of one quantification batch
MaxQuantRows == 3    \* rows of the quantification stream of one run, over all batches

(***************************************************************************)
(* Small helpers on sequences.                                             *)
(***************************************************************************)
Range(s) == {s[i] : i \in 1..Len(s)}

SeqsUpTo(S, lo, hi) == UNION {[1..n -> S] : n \in lo..hi}

RECURSIVE SumLen(_)
SumLen(ss) == IF ss = <<>> THEN 0 ELSE Len(Head(ss)) + SumLen(Tail(ss))

RECURSIVE Flatten(_)
Flatten(ss) == IF ss = <<>> THEN <<>> ELSE Head(ss) \o Flatten(Tail(ss))

(***************************************************************************)
(* The PSM table (the rows Psm.iter_psm_table yields).                     *)
(***************************************************************************)
PepTexts == {"0.01", "0.02", "0.03"}

\* float(text) of a posterior error probability, in hundredths.
Float(s) ==
    CASE s = "0.01" -> 1
      [] s = "0.02" -> 2
      [] s = "0.03" -> 3

Key1 == <<"a", "PEP(ox)TIDE", "2">>
Key2 == <<"a_b", "PEPTIDE", "3">>
PsmKeys == {Key1, Key2}

\* The six pass-through attributes of a PSM row; two distinguishable payloads.
Payload1 ==
    [calculated_mz |-> "1.5", observed_mz |-> "1.6", mp_accessions |-> "P1",
     is_decoy |-> "0", additional_scores |-> "s1", cv_params |-> "c1"]
Payload2 ==
    [calculated_mz |-> "abc", observed_mz |-> "2.6", mp_accessions |-> "P2",
     is_decoy |-> "1", additional_scores |-> "s2", cv_params |-> "c2"]
PsmPayloads == {Payload1, Payload2}

PsmRow(k, p, a) ==
    [reference_file_name |-> k[1], peptidoform |-> k[2], precursor_charge |-> k[3],
     posterior_error_probability |-> p,
     calculated_mz |-> a.calculated_mz, observed_mz |-> a.observed_mz,
     mp_accessions |-> a.mp_accessions, is_decoy |-> a.is_decoy,
     additional_scores |-> a.additional_scores, cv_params |-> a.cv_params]

PsmRows == {PsmRow(k, p, a) : k \in PsmKeys, p \in PepTexts, a \in PsmPayloads}

PsmKey(row) == <<row.reference_file_name, row.peptidoform, row.precursor_charge>>

(***************************************************************************)
(* Feature.extract_psm_msg, one chunk at a time.                           *)
(***************************************************************************)
\* psm_chunk.groupby([...]) followed by reset_index: the rows of one key, in row order.
GroupOf(chunk, key) == SelectSeq(chunk, LAMBDA r : PsmKey(r) = key)

GroupKeys(chunk) == {PsmKey(chunk[i]) : i \in 1..Len(chunk)}

\* mutant: the last row of the group instead of the row of minimum probability
IdxMinLast(df) == Len(df)

\* df["posterior_error_probability"].idxmin(): the first position of the minimum.
IdxMin(df) ==
    CHOOSE i \in 1..Len(df) :
        /\ \A j \in 1..Len(df) :
              Float(df[i].posterior_error_probability)
                  <= Float(df[j].posterior_error_probability)
        /\ \A j \in 1..(i - 1) :
              Float(df[j].posterior_error_probability)
                  > Float(df[i].posterior_error_probability)

NoneEntry == <<NULL, NULL, NULL, NULL, NULL, NULL, NULL>>

EntryOf(row) ==
    <<row.posterior_error_probability, row.calculated_mz, row.observed_mz,
      row.mp_accessions, row.is_decoy, row.additional_scores, row.cv_params>>

\* mutant: a later row replaces the stored one on an equal probability too
UpdateEntryGeq(entry, temp_df) ==
    IF entry[1] = NULL
       \/ Float(entry[1]) >= Float(temp_df.posterior_error_probability)
    THEN EntryOf(temp_df)
    ELSE entry

\* lines 39-51: the stored entry is replaced only by a strictly smaller probability.
UpdateEntry(entry, temp_df) ==
    IF entry[1] = NULL
       \/ Float(entry[1]) > Float(temp_df.posterior_error_probability)
    THEN EntryOf(temp_df)
    ELSE entry

\* lines 34-51: the body of the loop over the chunks, for one chunk.
UpdateChunk(md, chunk) ==
    [key \in (DOMAIN md) \cup GroupKeys(chunk) |->
        IF key \in GroupKeys(chunk)
        THEN LET df      == GroupOf(chunk, key)
                 temp_df == df[IdxMin(df)]
                 old     == IF key \in DOMAIN md THEN md[key] ELSE NoneEntry
             IN  UpdateEntry(old, temp_df)
        ELSE md[key]]

RECURSIVE ExtractPsmMsg(_, _)
\* the whole of extract_psm_msg on a list of chunks, starting from md
ExtractPsmMsg(md, chunks) ==
    IF chunks = <<>> THEN md
    ELSE ExtractPsmMsg(UpdateChunk(md, Head(chunks)), Tail(chunks))

EmptyDict == [key \in {} |-> NoneEntry]

\* the variables of the batch loop, while no batch loop runs
RepIdle ==
    /\ pep_dict = EmptyDict
    /\ rep_pc = "idle"
    /\ msstats_in = <<>>
    /\ msstats = <<>>

\* the variables of write_features_to_file, while it is not called
WriteIdle ==
    /\ w_pc = "idle"
    /\ outcome = "running"
    /\ partitions = [is_list |-> TRUE, has_len |-> TRUE, cols |-> <<>>]
    /\ extract_calls = 0
    /\ duckdb = "none"
    /\ pulled = <<>>
    /\ slices = <<>>
    /\ next_slice = 1
    /\ consumed = <<>>
    /\ pqwriters = [k \in {} |-> 0]
    /\ partition_counts = [k \in {} |-> 0]
    /\ features_processed = 0
    /\ pqwriter = 0
    /\ sinks = <<>>

\* what a call of quantmsio_workflow finds: whether each required input exists,
\* whether the output folder exists, and whether each optional version is given
WorkflowInputs ==
    {"mztab_file", "msstats_file", "sdrf_file", "mzml_stats", "output_folder",
     "quantms_version", "quantmsio_version"}

\* the variables of quantmsio_workflow, while it is not called
WorkflowIdle ==
    /\ wf_pc = "idle"
    /\ wf_inputs = [n \in WorkflowInputs |-> TRUE]
    /\ wf_init_step = 1
    /\ wf_attempted = {}
    /\ wf_failed = {}
    /\ wf_outcome = "running"

InitPsm ==
    /\ psm_pc = "loop"
    /\ psm_chunks = <<>>
    /\ map_dict = EmptyDict
    /\ RepIdle
    /\ WriteIdle
    /\ WorkflowIdle

\* one iteration of "for psm_chunk in psm.iter_psm_table(...)"
PsmChunk ==
    /\ psm_pc = "loop"
    /\ SumLen(psm_chunks) < MaxPsmRows
    /\ \E chunk \in SeqsUpTo(PsmRows, 1, MaxPsmRows - SumLen(psm_chunks)) :
          /\ psm_chunks' = Append(psm_chunks, chunk)
          /\ map_dict' = UpdateChunk(map_dict, chunk)
    /\ UNCHANGED <<psm_pc, repVars, writeVars, wfVars>>

\* the stream is exhausted: return map_dict, pep_dict
PsmReturn ==
    /\ psm_pc = "loop"
    /\ psm_pc' = "returned"
    /\ UNCHANGED <<psm_chunks, map_dict, repVars, writeVars, wfVars>>

NextPsm == PsmChunk \/ PsmReturn

SpecPsm == InitPsm /\ [][NextPsm]_vars

PsmSeen == Flatten(psm_chunks)

RowsOfKey(key) == {r \in Range(PsmSeen) : PsmKey(r) = key}

\* C1: after extract_psm_msg has returned, for every key the stored probability is
\* at most the probability of every PSM row of that key in any chunk, every key
\* that has a row has an entry, and the whole stored entry (probability and the
\* other six attributes) is that of one row of the key with that probability.
C1_MinProbabilityPerKey ==
    psm_pc = "returned" =>
        /\ DOMAIN map_dict = GroupKeys(PsmSeen)
        /\ \A key \in DOMAIN map_dict :
              /\ \A r \in RowsOfKey(key) :
                    Float(map_dict[key][1]) <= Float(r.posterior_error_probability)
              /\ \E r \in RowsOfKey(key) : map_dict[key] = EntryOf(r)

\* C1 witness: a key whose rows were spread over two chunks with different
\* probabilities, the smaller one in the later chunk.
C1_Witness ==
    /\ psm_pc = "returned"
    /\ Len(psm_chunks) >= 2
    /\ \E key \in DOMAIN map_dict :
          \E r1 \in Range(psm_chunks[1]), r2 \in Range(psm_chunks[2]) :
              /\ PsmKey(r1) = key /\ PsmKey(r2) = key
              /\ Float(r2.posterior_error_probability)
                    < Float(r1.posterior_error_probability)
(***************************************************************************)
(* The quantification batches (the frames transform_msstats_in yields).    *)
(***************************************************************************)
QuantRow(file, pepf, charge) ==
    [reference_file_name |-> file, peptidoform |-> pepf, precursor_charge |-> charge,
     unique |-> "1", rt |-> "1.5", intensity |-> "100"]

ReportQuantRows ==
    {QuantRow(f, p, c) : f \in {"a", "a_b"}, p \in {"PEP(ox)TIDE", "PEPTIDE"},
                         c \in {"2", "3", "2.0", "abc", "2.5"}}

QuantKey(rows) == <<rows.reference_file_name, rows.peptidoform, rows.precursor_charge>>

(***************************************************************************)
(* Feature.merge_msstats_and_psm                                           *)
(***************************************************************************)
MapFeatures ==
    <<"posterior_error_probability", "calculated_mz", "observed_mz", "mp_accessions",
      "is_decoy", "additional_scores", "cv_params">>

\* mutant: the m/z pair is read from swapped positions of the stored entry
MergePsmSwapped(rows, index, md) ==
    IF QuantKey(rows) \in DOMAIN md
    THEN md[QuantKey(rows)][IF index = 2 THEN 3 ELSE IF index = 3 THEN 2 ELSE index]
    ELSE NULL

\* merge_psm(rows, index), lines 76-85 (index counts from 1 here)
MergePsm(rows, index, md) ==
    IF QuantKey(rows) \in DOMAIN md THEN md[QuantKey(rows)][index] ELSE NULL

\* a row with the columns named in cols set (added or overwritten) by val
WithColumns(row, cols, val(_)) ==
    [c \in (DOMAIN row) \cup cols |-> IF c \in cols THEN val(c) ELSE row[c]]

IndexOfFeature(f) == CHOOSE i \in 1..Len(MapFeatures) : MapFeatures[i] = f

\* mutant: an inner join, which keeps only the rows that have a PSM match
MergeInnerJoin(df, md) ==
    LET kept == SelectSeq(df, LAMBDA r : QuantKey(r) \in DOMAIN md)
    IN  [i \in 1..Len(kept) |->
            WithColumns(kept[i], Range(MapFeatures),
                        LAMBDA f : MergePsm(kept[i], IndexOfFeature(f), md))]

\* lines 87-93: each of the seven columns is assigned row by row
MergeMsstatsAndPsm(df, md) ==
    [i \in 1..Len(df) |->
        WithColumns(df[i], Range(MapFeatures),
                    LAMBDA f : MergePsm(df[i], IndexOfFeature(f), md))]

(***************************************************************************)
(* Feature.add_additional_msg                                              *)
(***************************************************************************)
\* self._protein_global_qvalue_map: accession -> protein-group global q-value
ProteinGlobalQvalueMap == [acc \in {"P1"} |-> "0.001"]

\* Series.map(dict): an accession that is no key of the map gives NaN
MapQvalue(acc) ==
    IF acc \in DOMAIN ProteinGlobalQvalueMap THEN ProteinGlobalQvalueMap[acc] ELSE NULL

\* generate_best_scan(rows, pep_dict), lines 245-250
GenerateBestScan(rows, pd) ==
    LET key == <<rows.peptidoform, rows.precursor_charge>>
    IN  IF key \in DOMAIN pd THEN <<pd[key][2], pd[key][3]>> ELSE <<NULL, NULL>>

\* MzTab.generate_modifications_details: (clean sequence, modification list)
GenerateModificationsDetails(pepf) ==
    CASE pepf = "PEP(ox)TIDE" -> <<"PEPTIDE", "ox@3">>
      [] OTHER -> <<pepf, NULL>>

\* quantmsio.operate.tools.get_protein_accession: the canonical accession form
GetProteinAccession(acc) == IF acc = NULL THEN NULL ELSE "[" \o acc \o "]"

PlaceholderColumns ==
    {"additional_intensities", "predicted_rt", "gg_accessions", "gg_names", "rt_start",
     "rt_stop", "ion_mobility", "start_ion_mobility", "stop_ion_mobility"}

AddedColumns ==
    {"pg_global_qvalue", "scan_reference_file_name", "scan", "peptidoform",
     "modifications", "mp_accessions"} \cup PlaceholderColumns

AddAdditionalRow(row, pd) ==
    WithColumns(row, AddedColumns,
        LAMBDA c :
            CASE c = "pg_global_qvalue" -> MapQvalue(row.mp_accessions)
              [] c = "scan_reference_file_name" -> GenerateBestScan(row, pd)[1]
              [] c = "scan" -> GenerateBestScan(row, pd)[2]
              [] c = "peptidoform" -> GenerateModificationsDetails(row.peptidoform)[1]
              [] c = "modifications" -> GenerateModificationsDetails(row.peptidoform)[2]
              [] c = "mp_accessions" -> GetProteinAccession(row.mp_accessions)
              [] OTHER -> NULL)

\* lines 252-280
AddAdditionalMsg(df, pd) == [i \in 1..Len(df) |-> AddAdditionalRow(df[i], pd)]

(***************************************************************************)
(* Feature.convert_to_parquet_format                                       *)
(***************************************************************************)
\* the numbers the model's texts denote, each named by its shortest text
NumberTexts ==
    {"0", "1", "2", "3", "100", "0.001", "0.01", "0.02", "0.03", "1.5", "1.6", "2.6", "2.5"}

IntegerNumbers == {"0", "1", "2", "3", "100"}

\* mutant: pd.to_numeric(errors="ignore"), which leaves an unparsable text in place
ToNumericIgnore(c) ==
    CASE c = "2.0" -> "2"
      [] OTHER -> c

\* pd.to_numeric(errors="coerce") on one cell: the number, or NaN
ToNumeric(c) ==
    CASE c = "2.0" -> "2"
      [] c \in NumberTexts -> c
      [] OTHER -> NULL

\* .astype("Int32") accepts NaN (as <NA>) and integral values only
Int32Castable(n) == n = NULL \/ n \in IntegerNumbers

\* mutant: the null of a missing scan is kept
AsStrKeepNull(c) == c

\* .astype(str) on one cell: None becomes the text "None"
AsStr(c) == IF c = NULL THEN "None" ELSE c

SetColumn(df, col, F(_)) ==
    [i \in 1..Len(df) |-> [df[i] EXCEPT ![col] = F(df[i][col])]]

FloatColumns ==
    <<"pg_global_qvalue", "calculated_mz", "observed_mz", "posterior_error_probability">>

RECURSIVE ConvertFloats(_, _)
\* lines 304-306
ConvertFloats(res, cols) ==
    IF cols = <<>> THEN res
    ELSE ConvertFloats(SetColumn(res, Head(cols), ToNumeric), Tail(cols))

IntColumns == <<"unique", "precursor_charge", "is_decoy">>

\* whether to_numeric(...).astype("Int32") of column col raises
IntCastRaises(res, col) ==
    \E i \in 1..Len(res) : ~Int32Castable(ToNumeric(res[i][col]))

RECURSIVE ConvertInts(_, _)
\* lines 309-321; the frame is left as it was when the failing cast raised
ConvertInts(res, cols) ==
    IF cols = <<>> THEN [raised |-> FALSE, res |-> res]
    ELSE IF IntCastRaises(res, Head(cols)) THEN [raised |-> TRUE, res |-> res]
    ELSE ConvertInts(SetColumn(res, Head(cols), ToNumeric), Tail(cols))

\* lines 283-331
ConvertToParquetFormat(res) ==
    LET ints == ConvertInts(ConvertFloats(res, FloatColumns), IntColumns)
    IN  IF ints.raised THEN ints
        ELSE [raised |-> FALSE,
              res |-> SetColumn(
                        SetColumn(SetColumn(ints.res, "scan", AsStr),
                                  "scan_reference_file_name", AsStr),
                        "rt", ToNumeric)]

(***************************************************************************)
(* Feature.generate_feature_report: the body of its loop, step by step.    *)
(***************************************************************************)
\* the index of a run: what extract_psm_msg returns on a small PSM table
ReportChunkLists ==
    { <<>>,
      << <<PsmRow(Key1, "0.02", Payload1)>> >>,
      << <<PsmRow(Key1, "0.02", Payload1), PsmRow(Key2, "0.03", Payload2)>>,
         <<PsmRow(Key1, "0.01", Payload2)>> >> }

\* psm.extract_from_pep: (peptidoform, charge) -> [probability, file, scan]
PepDicts ==
    { [k \in {} |-> <<>>],
      [k \in {<<"PEP(ox)TIDE", "2">>} |-> <<"0.01", "a", "101">>],
      [k \in {<<"PEP(ox)TIDE", "2">>, <<"PEPTIDE", "3">>} |->
          IF k[2] = "2" THEN <<"0.01", "a", "101">> ELSE <<"0.03", "a_b", "7">>] }

InitReport ==
    /\ psm_pc = "returned"
    /\ psm_chunks \in ReportChunkLists
    /\ map_dict = ExtractPsmMsg(EmptyDict, psm_chunks)
    /\ pep_dict \in PepDicts
    /\ rep_pc = "pull"
    /\ msstats_in = <<>>
    /\ msstats = <<>>
    /\ WriteIdle
    /\ WorkflowIdle

\* line 108: the next batch of the quantification stream
RepPull ==
    /\ rep_pc = "pull"
    /\ \E batch \in SeqsUpTo(ReportQuantRows, 1, MaxBatchRows) :
          /\ msstats_in' = batch
          /\ msstats' = batch
    /\ rep_pc' = "merge"
    /\ UNCHANGED <<psmVars, pep_dict, writeVars, wfVars>>

\* line 111
RepMerge ==
    /\ rep_pc = "merge"
    /\ msstats' = MergeMsstatsAndPsm(msstats, map_dict)
    /\ rep_pc' = "add"
    /\ UNCHANGED <<psmVars, pep_dict, msstats_in, writeVars, wfVars>>

\* line 112
RepAdd ==
    /\ rep_pc = "add"
    /\ msstats' = AddAdditionalMsg(msstats, pep_dict)
    /\ rep_pc' = "convert"
    /\ UNCHANGED <<psmVars, pep_dict, msstats_in, writeVars, wfVars>>

\* line 113: the conversion returns, or a cast raises and ends the generator
RepConvert ==
    /\ rep_pc = "convert"
    /\ LET r == ConvertToParquetFormat(msstats)
       IN  /\ msstats' = r.res
           /\ rep_pc' = IF r.raised THEN "raised" ELSE "yield"
    /\ UNCHANGED <<psmVars, pep_dict, msstats_in, writeVars, wfVars>>

\* line 114: the batch is yielded; the consumer takes it and asks for the next
RepYield ==
    /\ rep_pc = "yield"
    /\ rep_pc' = "pull"
    /\ msstats_in' = <<>>
    /\ msstats' = <<>>
    /\ UNCHANGED <<psmVars, pep_dict, writeVars, wfVars>>

NextReport == RepPull \/ RepMerge \/ RepAdd \/ RepConvert \/ RepYield

SpecReport == InitReport /\ [][NextReport]_vars

\* C2: the batch generate_feature_report yields has as many rows as the batch pulled
\* from the quantification stream, and so has the frame after each of the three steps.
C2_RowCountPreserved ==
    rep_pc \in {"add", "convert", "yield", "raised"} => Len(msstats) = Len(msstats_in)

\* C2 witness: a two-row batch, one row with a PSM match and one without, is yielded.
C2_Witness ==
    /\ rep_pc = "yield"
    /\ Len(msstats_in) >= 2
    /\ \E i, j \in 1..Len(msstats_in) :
          /\ QuantKey(msstats_in[i]) \in DOMAIN map_dict
          /\ QuantKey(msstats_in[j]) \notin DOMAIN map_dict

\* C3: right after merge_msstats_and_psm, every row of the batch is kept in place
\* with its quantification fields; a row whose key is not in the index has all
\* seven PSM fields null, a row whose key is in the index has the stored entry.
C3_LeftJoin ==
    rep_pc = "add" =>
        /\ Len(msstats) = Len(msstats_in)
        /\ \A i \in 1..Len(msstats_in) :
              /\ \A c \in DOMAIN msstats_in[i] : msstats[i][c] = msstats_in[i][c]
              /\ \A x \in 1..7 :
                    msstats[i][MapFeatures[x]] =
                        IF QuantKey(msstats_in[i]) \in DOMAIN map_dict
                        THEN map_dict[QuantKey(msstats_in[i])][x]
                        ELSE NULL

\* C3 witness: a merged batch with a matched row and an unmatched row.
C3_Witness ==
    /\ rep_pc = "add"
    /\ \E i, j \in 1..Len(msstats_in) :
          /\ QuantKey(msstats_in[i]) \in DOMAIN map_dict
          /\ msstats[i].calculated_mz # msstats[i].observed_mz
          /\ QuantKey(msstats_in[j]) \notin DOMAIN map_dict
          /\ msstats[j].posterior_error_probability = NULL
(***************************************************************************)
(* Feature.convert_to_parquet_format on frames whose numeric columns hold  *)
(* arbitrary texts.                                                        *)
(***************************************************************************)
ConvertRow(qvalue, mz, pep, charge, decoy) ==
    [reference_file_name |-> "a", peptidoform |-> "PEPTIDE", precursor_charge |-> charge,
     unique |-> "1", rt |-> "1.5", intensity |-> "100",
     posterior_error_probability |-> pep, calculated_mz |-> mz[1], observed_mz |-> mz[2],
     is_decoy |-> decoy, pg_global_qvalue |-> qvalue,
     scan_reference_file_name |-> NULL, scan |-> "101"]

ConvertRows ==
    {ConvertRow(q, mz, pep, ch, dec) :
        q \in {"0.001", "abc"},
        mz \in {<<"1.5", "1.6">>, <<"abc", "1.6">>, <<"1.5", "abc">>},
        pep \in {"0.01", "abc"},
        ch \in {"2", "abc", "2.5"},
        dec \in {"0", "abc"}}

InitConvert ==
    /\ psm_pc = "returned"
    /\ psm_chunks = <<>>
    /\ map_dict = EmptyDict
    /\ pep_dict = EmptyDict
    /\ rep_pc = "convert"
    /\ msstats_in \in SeqsUpTo(ConvertRows, 1, MaxBatchRows)
    /\ msstats = msstats_in
    /\ WriteIdle
    /\ WorkflowIdle

NextConvert == RepConvert

SpecConvert == InitConvert /\ [][NextConvert]_vars

\* the texts pd.to_numeric parses as a number
Parsable(c) == c \in NumberTexts \cup {"2.0"}

CoercedColumns ==
    {"pg_global_qvalue", "calculated_mz", "observed_mz", "posterior_error_probability",
     "precursor_charge", "is_decoy"}

\* C10: a cell of the q-value, m/z, probability, charge or decoy column that does
\* not parse as a number is null after convert_to_parquet_format, with every row
\* kept in place; and the conversion raises only when an Int32 column holds a
\* number that is not integral, never because of an unparsable text.
C10_UnparsableBecomesNull ==
    /\ rep_pc = "yield" =>
          /\ Len(msstats) = Len(msstats_in)
          /\ \A i \in 1..Len(msstats_in) :
                /\ msstats[i].intensity = msstats_in[i].intensity
                /\ \A c \in CoercedColumns :
                      ~Parsable(msstats_in[i][c]) => msstats[i][c] = NULL
    /\ rep_pc = "raised" =>
          \E i \in 1..Len(msstats_in) : \E c \in Range(IntColumns) :
              Parsable(msstats_in[i][c]) /\ msstats_in[i][c] \notin IntegerNumbers

\* C10 witness: a converted two-row frame in which one row has an unparsable
\* probability and an unparsable charge and the other row is all numbers.
C10_Witness ==
    /\ rep_pc = "yield"
    /\ Len(msstats_in) = 2
    /\ \E i, j \in 1..2 :
          /\ msstats_in[i].posterior_error_probability = "abc"
          /\ msstats_in[i].precursor_charge = "abc"
          /\ msstats[i].posterior_error_probability = NULL
          /\ msstats[i].precursor_charge = NULL
          /\ \A c \in CoercedColumns : Parsable(msstats_in[j][c])
          /\ \A c \in CoercedColumns : msstats[j][c] # NULL
(***************************************************************************)
(* Feature.slice                                                           *)
(***************************************************************************)
PartitionList(cols) == [is_list |-> TRUE, has_len |-> TRUE, cols |-> cols]
\* a str given where the list is expected: it has a length and is no list
PartitionStr == [is_list |-> FALSE, has_len |-> TRUE, cols |-> <<>>]
\* None given where the list is expected
PartitionNone == [is_list |-> FALSE, has_len |-> FALSE, cols |-> <<>>]

Columns(df) == DOMAIN df[1]

\* lines 119-125: the check of the partition list against the frame
SliceCheck(df, p) ==
    IF ~p.is_list THEN "is not a list"
    ELSE IF Len(p.cols) = 0 THEN "is empty"
    ELSE IF \E i \in 1..Len(p.cols) : p.cols[i] \notin Columns(df) THEN "does not exist"
    ELSE "ok"

KeyOfRow(row, cols) == [i \in 1..Len(cols) |-> row[cols[i]]]

\* groupby drops a row that has a null in a grouping column (dropna=True)
HasNullKey(row, cols) == \E i \in 1..Len(cols) : row[cols[i]] = NULL

GroupKeysOf(df, cols) ==
    {KeyOfRow(df[i], cols) : i \in {j \in 1..Len(df) : ~HasNullKey(df[j], cols)}}

\* the sort order of the values the partition columns take
ValueOrder == <<"0", "1", "None", "a", "a_b", "b_c", "c">>

Rank(v) == CHOOSE i \in 1..Len(ValueOrder) : ValueOrder[i] = v

\* k1 sorts before k2 (tuples of the same length, compared from the left)
KeyLess(k1, k2) ==
    \E i \in 1..Len(k1) :
        /\ Rank(k1[i]) < Rank(k2[i])
        /\ \A j \in 1..(i - 1) : k1[j] = k2[j]

RECURSIVE SortKeys(_)
SortKeys(S) ==
    IF S = {} THEN <<>>
    ELSE LET m == CHOOSE k \in S : \A o \in S \ {k} : KeyLess(k, o)
         IN  <<m>> \o SortKeys(S \ {m})

Positions(df) == [i \in 1..Len(df) |-> i]

\* line 126: df.groupby(partitions), the groups in key order, each with the
\* positions of its rows in the batch
SliceGroups(df, cols) ==
    LET keys == SortKeys(GroupKeysOf(df, cols))
    IN  [g \in 1..Len(keys) |->
            [key |-> keys[g],
             idx |-> SelectSeq(Positions(df),
                               LAMBDA i : /\ ~HasNullKey(df[i], cols)
                                          /\ KeyOfRow(df[i], cols) = keys[g])]]

RowsAt(df, idx) == [j \in 1..Len(idx) |-> df[idx[j]]]

(***************************************************************************)
(* Feature.write_features_to_file                                          *)
(***************************************************************************)
RECURSIVE JoinUnderscore(_)
\* line 222: "_".join(str(k) for k in key)
JoinUnderscore(key) ==
    IF Len(key) = 1 THEN key[1] ELSE key[1] \o "_" \o JoinUnderscore(Tail(key))

\* lines 223-225
CountPartition(counts, label, n) ==
    [l \in (DOMAIN counts) \cup {label} |->
        (IF l \in DOMAIN counts THEN counts[l] ELSE 0) + (IF l = label THEN n ELSE 0)]

\* save_slice_file: the sink of the key is opened on its first group and reused after
SaveSliceFile(writers, key, rows) ==
    [k \in (DOMAIN writers) \cup {key} |->
        IF k = key
        THEN IF key \in DOMAIN writers
             THEN [writers[key] EXCEPT !.rows = @ \o rows]
             ELSE [rows |-> rows, closes |-> 0]
        ELSE writers[k]]

\* close_file(pqwriters): every sink of the table is closed
CloseFile(writers) ==
    [k \in DOMAIN writers |-> [writers[k] EXCEPT !.closes = @ + 1]]

\* lines 111-113, as the generator runs them between two yields
AnnotateBatch(batch, md, pd) ==
    ConvertToParquetFormat(AddAdditionalMsg(MergeMsstatsAndPsm(batch, md), pd))

WriteQuantRows ==
    {QuantRow(f, pc[1], pc[2]) :
        f \in {"a", "a_b"},
        pc \in {<<"PEP(ox)TIDE", "2">>, <<"PEPTIDE", "3">>, <<"PEPTIDE", "2.5">>}}

WriteChunkLists ==
    { << <<PsmRow(Key1, "0.02", Payload1)>> >>,
      << <<PsmRow(Key1, "0.02", Payload1), PsmRow(Key2, "0.03", Payload2)>>,
         <<PsmRow(Key1, "0.01", Payload2)>> >> }

WritePepDict ==
    [k \in {<<"PEP(ox)TIDE", "2">>, <<"PEPTIDE", "3">>} |->
        IF k[2] = "2" THEN <<"0.01", "b_c", "101">> ELSE <<"0.03", "c", "7">>]

PartitionArgs ==
    { PartitionList(<<"reference_file_name">>),
      PartitionList(<<"reference_file_name", "scan_reference_file_name">>),
      PartitionList(<<"is_decoy">>),
      PartitionList(<<>>),
      PartitionList(<<"no_such_column">>),
      PartitionStr,
      PartitionNone }

RECURSIVE Sum(_)
Sum(ns) == IF ns = <<>> THEN 0 ELSE Head(ns) + Sum(Tail(ns))

InitWrite ==
    /\ psm_pc = "idle"
    /\ psm_chunks \in WriteChunkLists
    /\ map_dict = EmptyDict
    /\ RepIdle
    /\ w_pc = "start"
    /\ outcome = "running"
    /\ partitions \in PartitionArgs
    /\ extract_calls = 0
    /\ duckdb = "none"
    /\ pulled = <<>>
    /\ slices = <<>>
    /\ next_slice = 1
    /\ consumed = <<>>
    /\ pqwriters = [k \in {} |-> 0]
    /\ partition_counts = [k \in {} |-> 0]
    /\ features_processed = 0
    /\ pqwriter = 0
    /\ sinks = <<>>
    /\ WorkflowIdle

\* the call raises: the exception leaves write_features_to_file
Raise ==
    /\ w_pc' = "done"
    /\ outcome' = "raised"

\* line 211: the indices are extracted, into locals the function never reads
WExtract1 ==
    /\ w_pc = "start"
    /\ map_dict' = ExtractPsmMsg(EmptyDict, psm_chunks)
    /\ pep_dict' = WritePepDict
    /\ extract_calls' = extract_calls + 1
    /\ w_pc' = "len"
    /\ UNCHANGED <<wfVars, pqwriter, sinks,
                   psm_pc, psm_chunks, rep_pc, msstats_in, msstats, outcome, partitions,
                   duckdb, pulled, slices, next_slice, consumed, pqwriters,
                   partition_counts, features_processed>>

\* line 214: len(partitions) raises TypeError on a value that has no length
WLenPartitions ==
    /\ w_pc = "len"
    /\ IF partitions.has_len
       THEN w_pc' = "gen" /\ outcome' = outcome
       ELSE Raise
    /\ UNCHANGED <<wfVars, pqwriter, sinks,
                   psmVars, repVars, partitions, extract_calls, duckdb, pulled, slices,
                   next_slice, consumed, pqwriters, partition_counts,
                   features_processed>>

\* lines 216, 137, 107: the first next() of the generators starts
\* generate_feature_report, which extracts the indices itself
WExtract2 ==
    /\ w_pc = "gen"
    /\ map_dict' = ExtractPsmMsg(EmptyDict, psm_chunks)
    /\ pep_dict' = WritePepDict
    /\ extract_calls' = extract_calls + 1
    /\ w_pc' = "open"
    /\ UNCHANGED <<wfVars, pqwriter, sinks,
                   psm_pc, psm_chunks, rep_pc, msstats_in, msstats, outcome, partitions,
                   duckdb, pulled, slices, next_slice, consumed, pqwriters,
                   partition_counts, features_processed>>

\* lines 57-59: transform_msstats_in builds MsstatsIN and with it its database
WOpenStream ==
    /\ w_pc = "open"
    /\ duckdb' = "open"
    /\ w_pc' = "pull"
    /\ UNCHANGED <<wfVars, pqwriter, sinks,
                   psmVars, repVars, outcome, partitions, extract_calls, pulled, slices,
                   next_slice, consumed, pqwriters, partition_counts,
                   features_processed>>

\* lines 60-61 and 108-113: the next batch is pulled and annotated; a raising
\* cast of convert_to_parquet_format leaves through every generator
WPull ==
    /\ w_pc = "pull"
    /\ Sum(pulled) < MaxQuantRows
    /\ \E batch \in SeqsUpTo(WriteQuantRows, 1, MaxBatchRows) :
          /\ Sum(pulled) + Len(batch) <= MaxQuantRows
          /\ pulled' = Append(pulled, Len(batch))
          /\ msstats_in' = batch
          /\ LET r == AnnotateBatch(batch, map_dict, pep_dict)
             IN  /\ msstats' = r.res
                 /\ IF r.raised THEN Raise ELSE w_pc' = "slice" /\ outcome' = outcome
    /\ UNCHANGED <<wfVars, pqwriter, sinks,
                   psmVars, pep_dict, rep_pc, partitions, extract_calls, duckdb, slices,
                   next_slice, consumed, pqwriters, partition_counts,
                   features_processed>>

\* line 60: reading the quantification source fails
WPullFails ==
    /\ w_pc = "pull"
    /\ Raise
    /\ UNCHANGED <<wfVars, pqwriter, sinks,
                   psmVars, repVars, partitions, extract_calls, duckdb, pulled, slices,
                   next_slice, consumed, pqwriters, partition_counts,
                   features_processed>>

\* lines 140, 118-126: slice checks the partition list, then groups the batch
WSlice ==
    /\ w_pc = "slice"
    /\ IF SliceCheck(msstats, partitions) = "ok"
       THEN /\ slices' = SliceGroups(msstats, partitions.cols)
            /\ next_slice' = 1
            /\ w_pc' = "groups"
            /\ outcome' = outcome
       ELSE /\ Raise
            /\ UNCHANGED <<slices, next_slice>>
    /\ UNCHANGED <<wfVars, pqwriter, sinks,
                   psmVars, repVars, partitions, extract_calls, duckdb, pulled, consumed,
                   pqwriters, partition_counts, features_processed>>

\* lines 141-142 and 219-229: one group reaches the body of the writer loop
WGroup ==
    /\ w_pc = "groups"
    /\ next_slice <= Len(slices)
    /\ LET key  == slices[next_slice].key
           rows == RowsAt(msstats, slices[next_slice].idx)
       IN  /\ features_processed' = features_processed + 1
           /\ partition_counts' =
                  CountPartition(partition_counts, JoinUnderscore(key), Len(rows))
           /\ pqwriters' = SaveSliceFile(pqwriters, key, rows)
           /\ consumed' = Append(consumed, [key |-> key, rows |-> rows])
    /\ next_slice' = next_slice + 1
    /\ UNCHANGED <<wfVars, pqwriter, sinks,
                   psmVars, repVars, w_pc, outcome, partitions, extract_calls, duckdb,
                   pulled, slices>>

\* lines 141, 227: the formatting of the group or the open/write of its sink fails
WSaveFails ==
    /\ w_pc = "groups"
    /\ next_slice <= Len(slices)
    /\ Raise
    /\ UNCHANGED <<wfVars, pqwriter, sinks,
                   psmVars, repVars, partitions, extract_calls, duckdb, pulled, slices,
                   next_slice, consumed, pqwriters, partition_counts,
                   features_processed>>

\* line 140 is exhausted: the loop of line 137 asks for the next batch
WNextBatch ==
    /\ w_pc = "groups"
    /\ next_slice > Len(slices)
    /\ w_pc' = "pull"
    /\ slices' = <<>>
    /\ next_slice' = 1
    /\ msstats_in' = <<>>
    /\ msstats' = <<>>
    /\ UNCHANGED <<wfVars, pqwriter, sinks,
                   psmVars, pep_dict, rep_pc, outcome, partitions, extract_calls, duckdb,
                   pulled, consumed, pqwriters, partition_counts, features_processed>>

\* line 62: the stream is exhausted and the database destroyed; the loops end
WExhaust ==
    /\ w_pc = "pull"
    /\ duckdb' = "destroyed"
    /\ w_pc' = "close"
    /\ UNCHANGED <<wfVars, pqwriter, sinks,
                   psmVars, repVars, outcome, partitions, extract_calls, pulled, slices,
                   next_slice, consumed, pqwriters, partition_counts,
                   features_processed>>

\* lines 236-242
WClose ==
    /\ w_pc = "close"
    /\ pqwriters' = CloseFile(pqwriters)
    /\ w_pc' = "done"
    /\ outcome' = "returned"
    /\ UNCHANGED <<wfVars, pqwriter, sinks,
                   psmVars, repVars, partitions, extract_calls, duckdb, pulled, slices,
                   next_slice, consumed, partition_counts, features_processed>>

NextWrite ==
    \/ WExtract1 \/ WLenPartitions \/ WExtract2 \/ WOpenStream
    \/ WPull \/ WPullFails \/ WSlice
    \/ WGroup \/ WSaveFails \/ WNextBatch
    \/ WExhaust \/ WClose

SpecWrite == InitWrite /\ [][NextWrite]_vars
FeatureColumns ==
    (DOMAIN QuantRow("a", "PEPTIDE", "2")) \cup Range(MapFeatures) \cup AddedColumns

\* the partitions argument is no list, is empty, or names a column no batch has
InvalidPartitions ==
    \/ ~partitions.is_list
    \/ Len(partitions.cols) = 0
    \/ \E i \in 1..Len(partitions.cols) : partitions.cols[i] \notin FeatureColumns

\* C4: the groups slice yields of a batch are exhaustive and disjoint: every row
\* of the batch, a row with a null partition value included, is in exactly one group.
C4_SliceExhaustiveDisjoint ==
    w_pc = "groups" =>
        \A i \in 1..Len(msstats) :
            Cardinality({g \in 1..Len(slices) : i \in Range(slices[g].idx)}) = 1

\* C5: when write_features_to_file has returned or raised, every sink that was
\* opened has been closed exactly once.
C5_SinksClosedOnce ==
    outcome \in {"returned", "raised"} =>
        \A k \in DOMAIN pqwriters : pqwriters[k].closes = 1

\* C6: when the conversion has returned or raised, the database of the
\* quantification stream, if it was created, has been destroyed.
C6_DuckdbDestroyed ==
    outcome \in {"returned", "raised"} => duckdb # "open"

\* C7: with a partition list that is no list, is empty or names an absent column,
\* no batch is ever pulled and no sink opened, and the call does not return.
C7_FailsBeforeAnyBatch ==
    InvalidPartitions =>
        /\ pulled = <<>>
        /\ DOMAIN pqwriters = {}
        /\ outcome # "returned"

RECURSIVE RowsConsumed(_, _)
\* the rows of the groups of key k among the consumed groups, in order
RowsConsumed(groups, k) ==
    IF groups = <<>> THEN <<>>
    ELSE (IF Head(groups).key = k THEN Head(groups).rows ELSE <<>>)
             \o RowsConsumed(Tail(groups), k)

\* the sinks are one per key seen, each holding exactly the rows of its key
SinksMatchKeys ==
    /\ DOMAIN pqwriters = {consumed[i].key : i \in 1..Len(consumed)}
    /\ \A k \in DOMAIN pqwriters :
          /\ pqwriters[k].rows = RowsConsumed(consumed, k)
          /\ \A r \in Range(pqwriters[k].rows) : KeyOfRow(r, partitions.cols) = k

\* C9: at every point of the partitioned write, there is exactly one sink per
\* key tuple seen so far, each sink holds exactly the rows of the groups of its
\* key, and the row count kept for a key is the number of rows in its sink.
C9_OneSinkPerKeyWithCount ==
    /\ SinksMatchKeys
    /\ \A k \in DOMAIN pqwriters :
          partition_counts[JoinUnderscore(k)] = Len(pqwriters[k].rows)

(***************************************************************************)
(* quantmsio_workflow                                                      *)
(***************************************************************************)
\* lines 91-103: the calls of the project initialization, in order.  The name
\* check_directory is bound nowhere in quantms.py as listed, so its call raises
\* NameError unless the name is supplied from outside; the model lets the call,
\* like every other, either return or raise.
InitCalls ==
    <<"check_directory", "populate_from_pride_archive", "populate_from_sdrf",
      "add_quantms_version", "add_software_provider", "add_sdrf_file">>

InitWorkflow ==
    /\ psm_pc = "idle"
    /\ psm_chunks = <<>>
    /\ map_dict = EmptyDict
    /\ RepIdle
    /\ WriteIdle
    /\ wf_pc = "find"
    /\ wf_inputs \in [WorkflowInputs -> BOOLEAN]
    /\ wf_init_step = 1
    /\ wf_attempted = {}
    /\ wf_failed = {}
    /\ wf_outcome = "running"

AllInputsFound ==
    /\ wf_inputs["mztab_file"] /\ wf_inputs["msstats_file"]
    /\ wf_inputs["sdrf_file"] /\ wf_inputs["mzml_stats"]

\* lines 58-73: a missing input raises click.UsageError
WfFindFiles ==
    /\ wf_pc = "find"
    /\ IF AllInputsFound
       THEN wf_pc' = "check_dir" /\ wf_outcome' = wf_outcome
       ELSE wf_pc' = "done" /\ wf_outcome' = "raised"
    /\ UNCHANGED <<psmVars, repVars, writeVars, wf_inputs, wf_init_step, wf_attempted,
                   wf_failed>>

\* lines 84-86, 27-30: the output directory is created when it is missing
WfCheckDir ==
    /\ wf_pc = "check_dir"
    /\ wf_inputs' = [wf_inputs EXCEPT !["output_folder"] = TRUE]
    /\ wf_pc' = "init"
    /\ UNCHANGED <<psmVars, repVars, writeVars, wf_init_step, wf_attempted, wf_failed,
                   wf_outcome>>

\* lines 90-104: one call of the initialization returns
WfInitCall ==
    /\ wf_pc = "init"
    /\ wf_attempted' = wf_attempted \cup {"init"}
    /\ IF wf_init_step = Len(InitCalls)
       THEN wf_pc' = "feature" /\ wf_init_step' = wf_init_step
       ELSE wf_pc' = wf_pc /\ wf_init_step' = wf_init_step + 1
    /\ UNCHANGED <<psmVars, repVars, writeVars, wf_inputs, wf_failed, wf_outcome>>

\* lines 105-107: a call of the initialization raises; the handler prints the
\* error and returns from quantmsio_workflow
WfInitRaises ==
    /\ wf_pc = "init"
    /\ wf_attempted' = wf_attempted \cup {"init"}
    /\ wf_failed' = wf_failed \cup {"init"}
    /\ wf_pc' = "done"
    /\ wf_outcome' = "returned"
    /\ UNCHANGED <<psmVars, repVars, writeVars, wf_inputs, wf_init_step>>

\* lines 109-122: convert_feature returns
WfFeatureReturns ==
    /\ wf_pc = "feature"
    /\ wf_attempted' = wf_attempted \cup {"feature"}
    /\ wf_pc' = "psm"
    /\ UNCHANGED <<psmVars, repVars, writeVars, wf_inputs, wf_init_step, wf_failed,
                   wf_outcome>>

\* mutant: the handler of the feature conversion returns from the workflow
WfFeatureRaisesReturn ==
    /\ wf_pc = "feature"
    /\ wf_attempted' = wf_attempted \cup {"feature"}
    /\ wf_failed' = wf_failed \cup {"feature"}
    /\ wf_pc' = "done"
    /\ wf_outcome' = "returned"
    /\ UNCHANGED <<psmVars, repVars, writeVars, wf_inputs, wf_init_step>>

\* lines 123-124: convert_feature raises; the handler prints the error
WfFeatureRaises ==
    /\ wf_pc = "feature"
    /\ wf_attempted' = wf_attempted \cup {"feature"}
    /\ wf_failed' = wf_failed \cup {"feature"}
    /\ wf_pc' = "psm"
    /\ UNCHANGED <<psmVars, repVars, writeVars, wf_inputs, wf_init_step, wf_outcome>>

\* lines 126-135: convert_psm returns
WfPsmReturns ==
    /\ wf_pc = "psm"
    /\ wf_attempted' = wf_attempted \cup {"psm"}
    /\ wf_pc' = "end"
    /\ UNCHANGED <<psmVars, repVars, writeVars, wf_inputs, wf_init_step, wf_failed,
                   wf_outcome>>

\* lines 136-137: convert_psm raises; the handler prints the error
WfPsmRaises ==
    /\ wf_pc = "psm"
    /\ wf_attempted' = wf_attempted \cup {"psm"}
    /\ wf_failed' = wf_failed \cup {"psm"}
    /\ wf_pc' = "end"
    /\ UNCHANGED <<psmVars, repVars, writeVars, wf_inputs, wf_init_step, wf_outcome>>

\* line 139: the function ends
WfReturn ==
    /\ wf_pc = "end"
    /\ wf_pc' = "done"
    /\ wf_outcome' = "returned"
    /\ UNCHANGED <<psmVars, repVars, writeVars, wf_inputs, wf_init_step, wf_attempted,
                   wf_failed>>

NextWorkflow ==
    \/ WfFindFiles \/ WfCheckDir
    \/ WfInitCall \/ WfInitRaises
    \/ WfFeatureReturns \/ WfFeatureRaises
    \/ WfPsmReturns \/ WfPsmRaises
    \/ WfReturn

SpecWorkflow == InitWorkflow /\ [][NextWorkflow]_vars

\* C8: a run in which the project initialization, the feature conversion or the
\* PSM conversion raised does not return normally from quantmsio_workflow.
C8_FailureIsRaised ==
    wf_outcome = "returned" => wf_failed = {}
\* C11: in one partitioned conversion run the PSM indices are extracted exactly
\* once, before the first quantification batch is pulled: never more than one
\* extraction, and exactly one once the stream has been opened.
C11_IndicesBuiltOnce ==
    /\ extract_calls <= 1
    /\ duckdb # "none" => extract_calls = 1

\* the first row of the key, in stream order, that has the key's minimum probability
FirstMinRow(key) ==
    LET seen == GroupOf(PsmSeen, key)
        i == CHOOSE n \in 1..Len(seen) :
                 /\ \A j \in 1..Len(seen) :
                       Float(seen[n].posterior_error_probability)
                           <= Float(seen[j].posterior_error_probability)
                 /\ \A j \in 1..(n - 1) :
                       Float(seen[j].posterior_error_probability)
                           # Float(seen[n].posterior_error_probability)
    IN  seen[i]

\* C12: when several PSM rows of one key share the minimum probability, the index
\* holds the attributes of the first of them in stream order (row order within a
\* chunk, the earliest chunk across chunks); a later equal row never replaces it.
C12_FirstSeenWinsTie ==
    psm_pc = "returned" =>
        \A key \in DOMAIN map_dict : map_dict[key] = EntryOf(FirstMinRow(key))

\* C12 witness: two rows of one key with the same minimum probability and
\* different attributes, in two different chunks; the index holds the earlier.
C12_Witness ==
    /\ psm_pc = "returned"
    /\ Len(psm_chunks) >= 2
    /\ \E r1 \in Range(psm_chunks[1]), r2 \in Range(psm_chunks[2]) :
          /\ PsmKey(r1) = PsmKey(r2)
          /\ r1.posterior_error_probability = r2.posterior_error_probability
          /\ EntryOf(r1) # EntryOf(r2)
          /\ map_dict[PsmKey(r1)] = EntryOf(r1)
          /\ \A r \in RowsOfKey(PsmKey(r1)) :
                Float(r1.posterior_error_probability)
                    <= Float(r.posterior_error_probability)

\* C13: in a batch generate_feature_report yields, a row whose (peptidoform,
\* precursor_charge) is no key of the best-scan index has a null
\* scan_reference_file_name and a null scan; a row whose key is in the index has
\* the file and the scan stored for the key.
C13_BestScanOrNull ==
    rep_pc = "yield" =>
        \A i \in 1..Len(msstats_in) :
            LET key == <<msstats_in[i].peptidoform, msstats_in[i].precursor_charge>>
            IN  IF key \in DOMAIN pep_dict
                THEN /\ msstats[i].scan_reference_file_name = pep_dict[key][2]
                     /\ msstats[i].scan = pep_dict[key][3]
                ELSE /\ msstats[i].scan_reference_file_name = NULL
                     /\ msstats[i].scan = NULL
(***************************************************************************)
(* Feature.write_feature_to_file: the unpartitioned write path.  It shares *)
(* the generators, and so the variables, of the partitioned path; the      *)
(* local total_rows is the number of rows of the batches in consumed.      *)
(***************************************************************************)
\* quantmsio.core.common.FEATURE_SCHEMA: the fixed column set of a feature table
FEATURE_SCHEMA == FeatureColumns

\* pa.Table.from_pandas(df, schema=FEATURE_SCHEMA): the columns of the schema,
\* in a table that carries the schema
TransformFeature(df) ==
    [schema |-> FEATURE_SCHEMA,
     rows   |-> [i \in DOMAIN df |-> [c \in FEATURE_SCHEMA |-> df[i][c]]]]

\* pq.ParquetWriter(output_path, schema): a new sink, nothing written, not closed
ParquetWriter(schema) == [schema |-> schema, tables |-> <<>>, closes |-> 0]

\* lines 171-172: the sink is opened on the batch that finds pqwriter unset
OpenWriter(pw, snks, feature) ==
    IF pw = 0
    THEN [pqwriter |-> Len(snks) + 1,
          sinks    |-> Append(snks, ParquetWriter(feature.schema))]
    ELSE [pqwriter |-> pw, sinks |-> snks]

\* mutant: a sink is opened for every batch
WriteBatchReopen(pw, snks, feature) ==
    LET o == OpenWriter(0, snks, feature)
    IN  [o EXCEPT !.sinks[o.pqwriter].tables = Append(@, feature)]

\* lines 171-183: the body of the writer loop on one batch
WriteBatch(pw, snks, feature) ==
    LET o == OpenWriter(pw, snks, feature)
    IN  [o EXCEPT !.sinks[o.pqwriter].tables = Append(@, feature)]

\* close_file(pqwriter=pqwriter): the sink is closed
CloseWriter(snks, pw) == [snks EXCEPT ![pw].closes = @ + 1]

InitSingle ==
    /\ psm_pc = "idle"
    /\ psm_chunks \in WriteChunkLists
    /\ map_dict = EmptyDict
    /\ RepIdle
    /\ w_pc = "start"
    /\ outcome = "running"
    /\ partitions = [is_list |-> TRUE, has_len |-> TRUE, cols |-> <<>>]
    /\ extract_calls = 0
    /\ duckdb = "none"
    /\ pulled = <<>>
    /\ slices = <<>>
    /\ next_slice = 1
    /\ consumed = <<>>
    /\ pqwriters = [k \in {} |-> 0]
    /\ partition_counts = [k \in {} |-> 0]
    /\ features_processed = 0
    /\ pqwriter = 0
    /\ sinks = <<>>
    /\ WorkflowIdle

\* what no step of write_feature_to_file touches
singleFixed == <<wfVars, psm_pc, psm_chunks, rep_pc, partitions, slices, next_slice,
                 pqwriters, partition_counts>>

\* line 165: the indices are extracted, into locals the function never reads
SExtract1 ==
    /\ w_pc = "start"
    /\ map_dict' = ExtractPsmMsg(EmptyDict, psm_chunks)
    /\ pep_dict' = WritePepDict
    /\ extract_calls' = extract_calls + 1
    /\ w_pc' = "gen"
    /\ UNCHANGED <<singleFixed, msstats_in, msstats, outcome, duckdb, pulled, consumed,
                   features_processed, pqwriter, sinks>>

\* lines 168, 98, 107: the first next() of the generators starts
\* generate_feature_report, which extracts the indices itself
SExtract2 ==
    /\ w_pc = "gen"
    /\ map_dict' = ExtractPsmMsg(EmptyDict, psm_chunks)
    /\ pep_dict' = WritePepDict
    /\ extract_calls' = extract_calls + 1
    /\ w_pc' = "open"
    /\ UNCHANGED <<singleFixed, msstats_in, msstats, outcome, duckdb, pulled, consumed,
                   features_processed, pqwriter, sinks>>

\* lines 57-59: transform_msstats_in builds MsstatsIN and with it its database
SOpenStream ==
    /\ w_pc = "open"
    /\ duckdb' = "open"
    /\ w_pc' = "pull"
    /\ UNCHANGED <<singleFixed, map_dict, pep_dict, msstats_in, msstats, outcome,
                   extract_calls, pulled, consumed, features_processed, pqwriter, sinks>>

\* lines 60-61, 108-114 and 98-102: the next batch is pulled, annotated and made
\* a feature table, which the writer loop receives; a raising cast of
\* convert_to_parquet_format leaves through every generator
SPull ==
    /\ w_pc = "pull"
    /\ Sum(pulled) < MaxQuantRows
    /\ \E batch \in SeqsUpTo(WriteQuantRows, 1, MaxBatchRows) :
          /\ Sum(pulled) + Len(batch) <= MaxQuantRows
          /\ pulled' = Append(pulled, Len(batch))
          /\ msstats_in' = batch
          /\ LET r == AnnotateBatch(batch, map_dict, pep_dict)
             IN  /\ msstats' = r.res
                 /\ IF r.raised
                    THEN Raise /\ UNCHANGED consumed
                    ELSE /\ w_pc' = "body"
                         /\ outcome' = outcome
                         /\ consumed' = Append(consumed, TransformFeature(r.res))
    /\ UNCHANGED <<singleFixed, map_dict, pep_dict, extract_calls, duckdb,
                   features_processed, pqwriter, sinks>>

\* lines 60, 101: reading the quantification source or building the table fails
SPullFails ==
    /\ w_pc = "pull"
    /\ Raise
    /\ UNCHANGED <<singleFixed, map_dict, pep_dict, msstats_in, msstats, extract_calls,
                   duckdb, pulled, consumed, features_processed, pqwriter, sinks>>

\* lines 171-183: the body of the writer loop, then the loop asks for the next batch
SWrite ==
    /\ w_pc = "body"
    /\ LET w == WriteBatch(pqwriter, sinks, consumed[Len(consumed)])
       IN  /\ pqwriter' = w.pqwriter
           /\ sinks' = w.sinks
    /\ features_processed' = features_processed + 1
    /\ msstats_in' = <<>>
    /\ msstats' = <<>>
    /\ w_pc' = "pull"
    /\ UNCHANGED <<singleFixed, map_dict, pep_dict, outcome, extract_calls, duckdb, pulled,
                   consumed>>

\* line 183: the sink is there, and write_table fails
SWriteFails ==
    /\ w_pc = "body"
    /\ LET o == OpenWriter(pqwriter, sinks, consumed[Len(consumed)])
       IN  /\ pqwriter' = o.pqwriter
           /\ sinks' = o.sinks
    /\ features_processed' = features_processed + 1
    /\ Raise
    /\ UNCHANGED <<singleFixed, map_dict, pep_dict, msstats_in, msstats, extract_calls,
                   duckdb, pulled, consumed>>

\* line 62: the stream is exhausted and the database destroyed; the loops end
SExhaust ==
    /\ w_pc = "pull"
    /\ duckdb' = "destroyed"
    /\ w_pc' = "close"
    /\ UNCHANGED <<singleFixed, map_dict, pep_dict, msstats_in, msstats, outcome,
                   extract_calls, pulled, consumed, features_processed, pqwriter, sinks>>

\* lines 185-189: the sink is closed if there is one; the function returns
SClose ==
    /\ w_pc = "close"
    /\ sinks' = IF pqwriter # 0 THEN CloseWriter(sinks, pqwriter) ELSE sinks
    /\ w_pc' = "done"
    /\ outcome' = "returned"
    /\ UNCHANGED <<singleFixed, map_dict, pep_dict, msstats_in, msstats, extract_calls,
                   duckdb, pulled, consumed, features_processed, pqwriter>>

NextSingle ==
    \/ SExtract1 \/ SExtract2 \/ SOpenStream
    \/ SPull \/ SPullFails
    \/ SWrite \/ SWriteFails
    \/ SExhaust \/ SClose

SpecSingle == InitSingle /\ [][NextSingle]_vars
\* C14: write_feature_to_file opens at most one sink; the sink is opened by the
\* body of the loop on the first batch, with the schema of that batch; every
\* batch is written to that one sink, in the order the stream produced them;
\* when the stream ends without a batch no sink is opened and none is closed.
C14_SingleLazySink ==
    /\ Len(sinks) <= 1
    /\ pqwriter = Len(sinks)
    /\ sinks = <<>> <=> features_processed = 0
    /\ w_pc # "body" => (sinks = <<>> <=> consumed = <<>>)
    /\ sinks # <<>> =>
          /\ sinks[1].schema = consumed[1].schema
          /\ Len(sinks[1].tables) \in {Len(consumed) - 1, Len(consumed)}
          /\ sinks[1].tables = SubSeq(consumed, 1, Len(sinks[1].tables))
          /\ (outcome # "raised" /\ w_pc # "body") => sinks[1].tables = consumed
    /\ (w_pc = "done" /\ duckdb = "destroyed" /\ consumed = <<>>) =>
          outcome = "returned" /\ sinks = <<>> /\ pqwriter = 0

\* C14 witness: a run that returned after two batches, both in the one sink, in
\* order, the sink opened with the schema of the first and closed once.
C14_Witness ==
    /\ outcome = "returned"
    /\ Len(consumed) >= 2
    /\ consumed[1] # consumed[2]
    /\ Len(sinks) = 1
    /\ sinks[1].tables = consumed
    /\ sinks[1].schema = consumed[1].schema
    /\ sinks[1].closes = 1
\* C15: with every required input present, the PSM conversion is attempted if and
\* only if the project initialization completed without raising, whether the
\* feature conversion returned or raised; with a required input missing the call
\* raises UsageError and neither the initialization nor a conversion is attempted.
C15_PsmIffInitCompleted ==
    /\ "psm" \in wf_attempted =>
          AllInputsFound /\ "init" \in wf_attempted /\ "init" \notin wf_failed
    /\ (wf_pc = "done" /\ AllInputsFound) =>
          ("psm" \in wf_attempted <=>
              ("init" \in wf_attempted /\ "init" \notin wf_failed))
    /\ (wf_pc = "done" /\ ~AllInputsFound) =>
          wf_outcome = "raised" /\ wf_attempted = {}
    /\ ~AllInputsFound => wf_attempted = {}

\* C15 witness: a finished run, all inputs present, in which the initialization
\* completed, the feature conversion raised and the PSM conversion was attempted.
C15_Witness ==
    /\ wf_pc = "done"
    /\ AllInputsFound
    /\ "init" \in wf_attempted
    /\ wf_failed = {"feature"}
    /\ "psm" \in wf_attempted
=============================================================================
